---- MODULE Spec2Model ----
(***************************************************************************)
(* Idempotency-key lifecycle of the payments API (index.js) together with  *)
(* the expiry job (cleanup_expired_keys.js) and the two tables of          *)
(* migrations.sql.                                                         *)
(*                                                                         *)
(* Every `await` of a handler is one step: a SQL statement is atomic, the  *)
(* code between two statements is interleaved with the other requests and  *)
(* with the expiry job.  A statement either takes effect and returns or    *)
(* throws without effect.  Storage faults are injected at the statements   *)
(* of the claimed branch of POST /pay and at the INSERT of                 *)
(* POST /idempotency-keys; the SELECTs and the claiming UPDATE return.     *)
(* Requests are well formed (header, user_id and amount present).          *)
(***************************************************************************)
EXTENDS Integers, Sequences, FiniteSets, TLC

\* ---------------------------------------------------------------- bounds
NumKeys == 1
NumRequests == 2
NumUsers == 2
\* the clock runs from 0 to MaxTime; one tick is one minute
MaxTime == 2
\* the reservation window the service is configured with (env KEY_TTL_MINUTES)
KEY_TTL_MINUTES == 1

\* ------------------------------------------------------ program constants
maxWaitMs == 5000
intervalMs == 100

Keys == 1..NumKeys
Requests == 1..NumRequests
Users == 1..NumUsers
Amounts == {100}
Operations == {"pay"}

\* SQL NULL of a JSONB column, and of the INT column user_id (`user_id || null`)
Null == [null |-> TRUE]
NoUser == 0
\* SQL NULL of the TIMESTAMP column reserved_until
NoTime == -1

VARIABLES
    idempotency_keys,   \* table idempotency_keys: key -> row
    payments,           \* table payments: committed rows, in id order
    payments_id_seq,    \* the SERIAL sequence behind payments.id
    now,                \* the database clock, in minutes
    issued,             \* keys makeKey has returned so far
    issue_res,          \* the last response of POST /idempotency-keys
    pc,                 \* per POST /pay request: the statement it is at
    req,                \* per request: header key and body
    row,                \* per request: `row` of the first SELECT
    claimed,            \* per request: `claimed`
    waited,             \* per request: `waited`
    txn,                \* per request: the uncommitted INSERT of `client`
    payRes,             \* per request: `payRes.rows[0]`
    err,                \* per request: `err.message` of the inner catch
    res,                \* per request: the HTTP response sent
    live,               \* history: the key was claimable when looked up
    payment_key         \* history: payment id -> key it was made for

vars == <<idempotency_keys, payments, payments_id_seq, now, issued, issue_res,
          pc, req, row, claimed, waited, txn, payRes, err,
          res, live, payment_key>>

dbVars == <<idempotency_keys, payments, payments_id_seq, payment_key>>
issueVars == <<issued, issue_res>>
localVars == <<req, row, claimed, waited, txn, payRes, err, live>>

\* ------------------------------------------------------------- helpers
NoReq == [key |-> 0, user_id |-> NoUser, amount |-> 0]
NoRow == [status |-> "none", response |-> Null]
NoTxn == [state |-> "none"]
NoPayRes == [id |-> 0, created_at |-> <<"Date", 0>>]
NoRes == [status |-> 0, body |-> Null]

Rows == DOMAIN idempotency_keys

Terminal(status) == status \in {"completed", "failed"}

\* JSON.stringify of a value holding a Date: the Date becomes its ISO string.
\* Both res.json and the JSONB parameter of pool.query serialise this way.
ToJSON(v) ==
    IF "created_at" \in DOMAIN v
    THEN [v EXCEPT !.created_at = <<"ISO", v.created_at[2]>>]
    ELSE v

Reply(r, status, body) == res' = [res EXCEPT ![r] = [status |-> status, body |-> ToJSON(body)]]

\* makeKey: a UUID; never one that was returned before
makeKey == CHOOSE k \in Keys \ issued : \A j \in Keys \ issued : k <= j

Init ==
    /\ idempotency_keys = <<>>
    /\ payments = <<>>
    /\ payments_id_seq = 1
    /\ now = 0
    /\ issued = {}
    /\ issue_res = NoRes
    /\ pc = [r \in Requests |-> "idle"]
    /\ req = [r \in Requests |-> NoReq]
    /\ row = [r \in Requests |-> NoRow]
    /\ claimed = [r \in Requests |-> FALSE]
    /\ waited = [r \in Requests |-> 0]
    /\ txn = [r \in Requests |-> NoTxn]
    /\ payRes = [r \in Requests |-> NoPayRes]
    /\ err = [r \in Requests |-> ""]
    /\ res = [r \in Requests |-> NoRes]
    /\ live = [r \in Requests |-> FALSE]
    /\ payment_key = <<>>

\* ------------------------------------------------------------ the clock
Tick ==
    /\ now < MaxTime
    /\ now' = now + 1
    /\ UNCHANGED <<dbVars, issueVars, pc, localVars, res>>

\* faulty variant: the key is handed out although its INSERT failed
IssueKey_ReturnsUnsavedKey(user_id, operation) ==
    /\ issued # Keys
    /\ LET key == CHOOSE k \in Keys \ issued : \A j \in Keys \ issued : k <= j
           reservedUntil == now + KEY_TTL_MINUTES
       IN \/ /\ idempotency_keys' =
                    (key :> [status |-> "reserved", response |-> Null,
                             user_id |-> user_id, operation |-> operation,
                             reserved_until |-> reservedUntil,
                             created_at |-> now, updated_at |-> now])
                    @@ idempotency_keys
             /\ issued' = issued \cup {key}
             /\ issue_res' = [status |-> 200,
                              body |-> [idempotencyKey |-> key,
                                        reserved_until |-> reservedUntil]]
          \/ /\ issue_res' = [status |-> 200,
                              body |-> [idempotencyKey |-> key,
                                        reserved_until |-> reservedUntil]]
             /\ UNCHANGED <<idempotency_keys, issued>>
    /\ UNCHANGED <<payments, payments_id_seq, payment_key, now, pc, localVars, res>>

\* ------------------------------------------- POST /idempotency-keys (26-43)
IssueKey(user_id, operation) ==
    /\ issued # Keys
    /\ LET key == makeKey
           reservedUntil == now + KEY_TTL_MINUTES
       IN \/ /\ idempotency_keys' =
                    (key :> [status |-> "reserved", response |-> Null,
                             user_id |-> user_id, operation |-> operation,
                             reserved_until |-> reservedUntil,
                             created_at |-> now, updated_at |-> now])
                    @@ idempotency_keys
             /\ issued' = issued \cup {key}
             /\ issue_res' = [status |-> 200,
                              body |-> [idempotencyKey |-> key,
                                        reserved_until |-> reservedUntil]]
          \/ /\ issue_res' = [status |-> 500,
                              body |-> [error |-> "failed to create idempotency key"]]
             /\ UNCHANGED <<idempotency_keys, issued>>
    /\ UNCHANGED <<payments, payments_id_seq, payment_key, now, pc, localVars, res>>

\* ------------------------------------------------------ POST /pay (65-145)
\* faulty variant: the WHERE clause forgets status = 'reserved'
ClaimWhere_AnyStatus(key, user_id) ==
    /\ key \in Rows
    /\ (idempotency_keys[key].user_id = NoUser \/ idempotency_keys[key].user_id = user_id)
    /\ (idempotency_keys[key].reserved_until = NoTime
          \/ idempotency_keys[key].reserved_until > now)

\* faulty variant: the WHERE clause forgets the reservation window
ClaimWhere_NoExpiry(key, user_id) ==
    /\ key \in Rows
    /\ idempotency_keys[key].status = "reserved"
    /\ (idempotency_keys[key].user_id = NoUser \/ idempotency_keys[key].user_id = user_id)

\* The WHERE clause of tryClaimKey's UPDATE (50-53).  Every INSERT of the
\* program sets reserved_until, so no row of a run matches its IS NULL branch.
ClaimWhere(key, user_id) ==
    /\ key \in Rows
    /\ idempotency_keys[key].status = "reserved"
    /\ (idempotency_keys[key].user_id = NoUser \/ idempotency_keys[key].user_id = user_id)
    /\ (idempotency_keys[key].reserved_until = NoTime
          \/ idempotency_keys[key].reserved_until > now)

\* UPDATE idempotency_keys SET status=$2, response=$3, updated_at=now() WHERE key=$1
SetStatus(key, status, response) ==
    IF key \in Rows
    THEN [idempotency_keys EXCEPT ![key].status = status,
                                  ![key].response = ToJSON(response),
                                  ![key].updated_at = now]
    ELSE idempotency_keys

Goto(r, label) == pc' = [pc EXCEPT ![r] = label]

\* the inner catch is entered with err.message = msg
Throw(r, msg, label) ==
    /\ err' = [err EXCEPT ![r] = msg]
    /\ Goto(r, label)

\* faulty variant: a completed key is not answered from the stored response
PayLookup_NoReplay(r, key, user_id, amount) ==
    /\ pc[r] = "idle"
    /\ \A q \in Requests : q < r => pc[q] # "idle"
    /\ req' = [req EXCEPT ![r] = [key |-> key, user_id |-> user_id, amount |-> amount]]
    /\ live' = [live EXCEPT ![r] =
                   /\ key \in Rows
                   /\ idempotency_keys[key].status = "reserved"
                   /\ idempotency_keys[key].reserved_until > now]
    /\ IF key \notin Rows
       THEN /\ Reply(r, 400, [error |-> "Unknown idempotency key. Acquire a key first."])
            /\ Goto(r, "done")
            /\ UNCHANGED row
       ELSE /\ row' = [row EXCEPT ![r] = [status |-> idempotency_keys[key].status,
                                          response |-> idempotency_keys[key].response]]
            /\ Goto(r, "claim")
            /\ UNCHANGED res
    /\ UNCHANGED <<dbVars, now, issueVars, claimed, waited, txn, payRes, err>>

\* faulty variant: an unknown key is created on the fly and then claimed
PayLookup_CreatesKey(r, key, user_id, amount) ==
    /\ pc[r] = "idle"
    /\ \A q \in Requests : q < r => pc[q] # "idle"
    /\ req' = [req EXCEPT ![r] = [key |-> key, user_id |-> user_id, amount |-> amount]]
    /\ live' = [live EXCEPT ![r] =
                   /\ key \in Rows
                   /\ idempotency_keys[key].status = "reserved"
                   /\ idempotency_keys[key].reserved_until > now]
    /\ IF key \notin Rows
       THEN /\ idempotency_keys' =
                   (key :> [status |-> "reserved", response |-> Null,
                            user_id |-> user_id, operation |-> "pay",
                            reserved_until |-> now + KEY_TTL_MINUTES,
                            created_at |-> now, updated_at |-> now])
                   @@ idempotency_keys
            /\ Goto(r, "claim")
            /\ UNCHANGED <<row, res>>
       ELSE /\ row' = [row EXCEPT ![r] = [status |-> idempotency_keys[key].status,
                                          response |-> idempotency_keys[key].response]]
            /\ UNCHANGED idempotency_keys
            /\ IF idempotency_keys[key].status = "completed"
               THEN /\ Reply(r, 200, idempotency_keys[key].response)
                    /\ Goto(r, "done")
               ELSE /\ Goto(r, "claim")
                    /\ UNCHANGED res
    /\ UNCHANGED <<payments, payments_id_seq, payment_key, now, issueVars,
                   claimed, waited, txn, payRes, err>>

\* 66-82: the request arrives and looks its key up
PayLookup(r, key, user_id, amount) ==
    /\ pc[r] = "idle"
    /\ \A q \in Requests : q < r => pc[q] # "idle"
    /\ req' = [req EXCEPT ![r] = [key |-> key, user_id |-> user_id, amount |-> amount]]
    /\ live' = [live EXCEPT ![r] =
                   /\ key \in Rows
                   /\ idempotency_keys[key].status = "reserved"
                   /\ idempotency_keys[key].reserved_until > now]
    /\ IF key \notin Rows
       THEN /\ Reply(r, 400, [error |-> "Unknown idempotency key. Acquire a key first."])
            /\ Goto(r, "done")
            /\ UNCHANGED row
       ELSE /\ row' = [row EXCEPT ![r] = [status |-> idempotency_keys[key].status,
                                          response |-> idempotency_keys[key].response]]
            /\ IF idempotency_keys[key].status = "completed"
               THEN /\ Reply(r, 200, idempotency_keys[key].response)
                    /\ Goto(r, "done")
               ELSE /\ Goto(r, "claim")
                    /\ UNCHANGED res
    /\ UNCHANGED <<dbVars, now, issueVars, claimed, waited, txn, payRes, err>>

\* faulty variant: the UPDATE reports the row but leaves its status alone
tryClaimKey_NoTransition(r) ==
    /\ pc[r] = "claim"
    /\ IF ClaimWhere(req[r].key, req[r].user_id)
       THEN /\ claimed' = [claimed EXCEPT ![r] = TRUE]
            /\ Goto(r, "connect")
       ELSE /\ Goto(r, "poll")
            /\ UNCHANGED claimed
    /\ UNCHANGED <<dbVars, now, issueVars, req, row, waited, txn, payRes, err, res, live>>

\* faulty variant: the UPDATE matches on the key alone
tryClaimKey_Unconditional(r) ==
    /\ pc[r] = "claim"
    /\ IF req[r].key \in Rows
       THEN /\ idempotency_keys' =
                   [idempotency_keys EXCEPT ![req[r].key].status = "processing",
                                            ![req[r].key].updated_at = now]
            /\ claimed' = [claimed EXCEPT ![r] = TRUE]
            /\ Goto(r, "connect")
       ELSE /\ Goto(r, "poll")
            /\ UNCHANGED <<idempotency_keys, claimed>>
    /\ UNCHANGED <<payments, payments_id_seq, payment_key, now, issueVars,
                   req, row, waited, txn, payRes, err, res, live>>

\* 85, 46-58: the atomic conditional UPDATE
tryClaimKey(r) ==
    /\ pc[r] = "claim"
    /\ IF ClaimWhere(req[r].key, req[r].user_id)
       THEN /\ idempotency_keys' =
                   [idempotency_keys EXCEPT ![req[r].key].status = "processing",
                                            ![req[r].key].updated_at = now]
            /\ claimed' = [claimed EXCEPT ![r] = TRUE]
            /\ Goto(r, "connect")
       ELSE /\ Goto(r, "poll")
            /\ UNCHANGED <<idempotency_keys, claimed>>
    /\ UNCHANGED <<payments, payments_id_seq, payment_key, now, issueVars,
                   req, row, waited, txn, payRes, err, res, live>>

\* 90: client = await pool.connect()
PayConnect(r) ==
    /\ pc[r] = "connect"
    /\ \/ Goto(r, "begin") /\ UNCHANGED err
       \/ Throw(r, "connect failed", "fail")
    /\ UNCHANGED <<dbVars, now, issueVars, req, row, claimed, waited, txn, payRes, res, live>>

\* 91: BEGIN; now() of the transaction is its start time
PayBegin(r) ==
    /\ pc[r] = "begin"
    /\ \/ /\ txn' = [txn EXCEPT ![r] = [state |-> "open", began |-> now]]
          /\ Goto(r, "insert")
          /\ UNCHANGED err
       \/ /\ Throw(r, "begin failed", "rollback")
          /\ UNCHANGED txn
    /\ UNCHANGED <<dbVars, now, issueVars, req, row, claimed, waited, payRes, res, live>>

\* 93-96: INSERT INTO payments ... RETURNING id, created_at
PayInsert(r) ==
    /\ pc[r] = "insert"
    /\ \/ /\ txn' = [txn EXCEPT ![r] =
                       [state |-> "inserted", began |-> txn[r].began,
                        row |-> [id |-> payments_id_seq, user_id |-> req[r].user_id,
                                 amount |-> req[r].amount, created_at |-> txn[r].began]]]
          /\ payRes' = [payRes EXCEPT ![r] = [id |-> payments_id_seq,
                                              created_at |-> <<"Date", txn[r].began>>]]
          /\ payments_id_seq' = payments_id_seq + 1
          /\ Goto(r, "commit")
          /\ UNCHANGED err
       \/ /\ Throw(r, "insert failed", "rollback")
          /\ UNCHANGED <<txn, payRes, payments_id_seq>>
    /\ UNCHANGED <<idempotency_keys, payments, payment_key, now, issueVars,
                   req, row, claimed, waited, res, live>>

\* faulty variant: an error of COMMIT is swallowed and the handler goes on
PayCommit_IgnoresFailure(r) ==
    /\ pc[r] = "commit"
    /\ \/ /\ payments' = Append(payments, txn[r].row)
          /\ payment_key' = Append(payment_key, req[r].key)
       \/ UNCHANGED <<payments, payment_key>>
    /\ txn' = [txn EXCEPT ![r] = NoTxn]
    /\ Goto(r, "complete")
    /\ UNCHANGED <<idempotency_keys, payments_id_seq, now, issueVars,
                   req, row, claimed, waited, payRes, err, res, live>>

\* 98: COMMIT
PayCommit(r) ==
    /\ pc[r] = "commit"
    /\ \/ /\ payments' = Append(payments, txn[r].row)
          /\ payment_key' = Append(payment_key, req[r].key)
          /\ txn' = [txn EXCEPT ![r] = NoTxn]
          /\ Goto(r, "complete")
          /\ UNCHANGED err
       \/ /\ Throw(r, "commit failed", "rollback")
          /\ UNCHANGED <<payments, payment_key, txn>>
    /\ UNCHANGED <<idempotency_keys, payments_id_seq, now, issueVars,
                   req, row, claimed, waited, payRes, res, live>>

\* 100-104
responsePayload(r) ==
    [success |-> TRUE, paymentId |-> payRes[r].id, created_at |-> payRes[r].created_at]

\* faulty variant: the row returned by the INSERT is stored as the response
PayComplete_StoresPayRes(r) ==
    /\ pc[r] = "complete"
    /\ \/ /\ idempotency_keys' = SetStatus(req[r].key, "completed", payRes[r])
          /\ Reply(r, 200, responsePayload(r))
          /\ Goto(r, "done")
          /\ UNCHANGED err
       \/ /\ Throw(r, "update failed", "rollback")
          /\ UNCHANGED <<idempotency_keys, res>>
    /\ UNCHANGED <<payments, payments_id_seq, payment_key, now, issueVars,
                   req, row, claimed, waited, txn, payRes, live>>

\* faulty variant: after the completed write the handler runs on into the catch
PayComplete_FallsThrough(r) ==
    /\ pc[r] = "complete"
    /\ idempotency_keys' = SetStatus(req[r].key, "completed", responsePayload(r))
    /\ Throw(r, "response failed", "rollback")
    /\ UNCHANGED <<payments, payments_id_seq, payment_key, now, issueVars,
                   req, row, claimed, waited, txn, payRes, res, live>>

\* 106-111: the completed write, then the response
PayComplete(r) ==
    /\ pc[r] = "complete"
    /\ \/ /\ idempotency_keys' = SetStatus(req[r].key, "completed", responsePayload(r))
          /\ Reply(r, 200, responsePayload(r))
          /\ Goto(r, "done")
          /\ UNCHANGED err
       \/ /\ Throw(r, "update failed", "rollback")
          /\ UNCHANGED <<idempotency_keys, res>>
    /\ UNCHANGED <<payments, payments_id_seq, payment_key, now, issueVars,
                   req, row, claimed, waited, txn, payRes, live>>

\* 113-115: ROLLBACK, its own error swallowed
PayRollback(r) ==
    /\ pc[r] = "rollback"
    /\ txn' = [txn EXCEPT ![r] = NoTxn]
    /\ Goto(r, "fail")
    /\ UNCHANGED <<dbVars, now, issueVars, req, row, claimed, waited, payRes, err, res, live>>

\* 116-124, 141-144: the failed write; if it throws, the outer catch answers
PayFail(r) ==
    /\ pc[r] = "fail"
    /\ \/ /\ idempotency_keys' = SetStatus(req[r].key, "failed", [error |-> err[r]])
          /\ Reply(r, 500, [error |-> "Payment failed", detail |-> err[r]])
       \/ /\ Reply(r, 500, [error |-> "Server error", detail |-> "update failed"])
          /\ UNCHANGED idempotency_keys
    /\ Goto(r, "done")
    /\ UNCHANGED <<payments, payments_id_seq, payment_key, now, issueVars, localVars>>

\* faulty variant: the waiter answers with the whole row instead of its response
PayPoll_ReturnsRow(r) ==
    /\ pc[r] = "poll"
    /\ waited[r] < maxWaitMs
    /\ LET key == req[r].key IN
       IF key \notin Rows
       THEN /\ Reply(r, 500, [error |-> "Server error", detail |-> "TypeError"])
            /\ Goto(r, "done")
            /\ UNCHANGED waited
       ELSE IF idempotency_keys[key].status = "completed"
       THEN /\ Reply(r, 200, [status |-> "completed",
                              response |-> idempotency_keys[key].response])
            /\ Goto(r, "done")
            /\ UNCHANGED waited
       ELSE IF idempotency_keys[key].status = "failed"
       THEN /\ Reply(r, 500, [error |-> "Previous attempt failed",
                              detail |-> idempotency_keys[key].response])
            /\ Goto(r, "done")
            /\ UNCHANGED waited
       ELSE /\ waited' = [waited EXCEPT ![r] = waited[r] + intervalMs]
            /\ IF waited[r] + intervalMs < maxWaitMs
               THEN UNCHANGED <<pc, res>>
               ELSE /\ Reply(r, 202, [status |-> "processing",
                                      message |-> "Request being processed; check status endpoint."])
                    /\ Goto(r, "done")
    /\ UNCHANGED <<dbVars, now, issueVars, req, row, claimed, txn, payRes, err, live>>

\* 127-138, 141-144: one iteration of the short-poll loop (read, sleep, test)
PayPoll(r) ==
    /\ pc[r] = "poll"
    /\ waited[r] < maxWaitMs
    /\ LET key == req[r].key IN
       IF key \notin Rows
       THEN \* r is undefined: r.status throws a TypeError
            /\ Reply(r, 500, [error |-> "Server error", detail |-> "TypeError"])
            /\ Goto(r, "done")
            /\ UNCHANGED waited
       ELSE IF idempotency_keys[key].status = "completed"
       THEN /\ Reply(r, 200, idempotency_keys[key].response)
            /\ Goto(r, "done")
            /\ UNCHANGED waited
       ELSE IF idempotency_keys[key].status = "failed"
       THEN /\ Reply(r, 500, [error |-> "Previous attempt failed",
                              detail |-> idempotency_keys[key].response])
            /\ Goto(r, "done")
            /\ UNCHANGED waited
       ELSE /\ waited' = [waited EXCEPT ![r] = waited[r] + intervalMs]
            /\ IF waited[r] + intervalMs < maxWaitMs
               THEN UNCHANGED <<pc, res>>
               ELSE /\ Reply(r, 202, [status |-> "processing",
                                      message |-> "Request being processed; check status endpoint."])
                    /\ Goto(r, "done")
    /\ UNCHANGED <<dbVars, now, issueVars, req, row, claimed, txn, payRes, err, live>>

\* the process dies inside the claimed branch; its open transaction is aborted
Crash(r) ==
    /\ pc[r] \in {"connect", "begin", "insert", "commit", "complete", "rollback", "fail"}
    /\ txn' = [txn EXCEPT ![r] = NoTxn]
    /\ Goto(r, "crashed")
    /\ UNCHANGED <<dbVars, now, issueVars, req, row, claimed, waited, payRes, err, res, live>>

\* ------------------------------------------ cleanup_expired_keys.js (6-17)
\* faulty variant: the DELETE forgets status='reserved'
CleanupWhere_AnyStatus(key) ==
    /\ idempotency_keys[key].reserved_until # NoTime
    /\ idempotency_keys[key].reserved_until < now

\* faulty variant: the DELETE forgets reserved_until < now()
CleanupWhere_NoExpiry(key) ==
    idempotency_keys[key].status = "reserved"

CleanupWhere(key) ==
    /\ idempotency_keys[key].status = "reserved"
    /\ idempotency_keys[key].reserved_until # NoTime
    /\ idempotency_keys[key].reserved_until < now

cleanup ==
    /\ idempotency_keys' = [k \in {j \in Rows : ~CleanupWhere(j)} |-> idempotency_keys[k]]
    /\ UNCHANGED <<payments, payments_id_seq, payment_key, now, issueVars, pc, localVars, res>>

\* ------------------------------------- GET /idempotency/:key (153-158)
\* res.json of a row: its TIMESTAMP columns leave as ISO strings, its JSONB
\* column as it is stored
RowJSON(r) ==
    [r EXCEPT !.reserved_until = <<"ISO", r.reserved_until>>,
              !.created_at = <<"ISO", r.created_at>>,
              !.updated_at = <<"ISO", r.updated_at>>]

\* the handler only reads: its answer in the current state
GetKey(key) ==
    IF key \notin Rows
    THEN [status |-> 404, body |-> [error |-> "not found"]]
    ELSE [status |-> 200, body |-> RowJSON(idempotency_keys[key])]

\* ------------------------------------------------------------ the system
Next ==
    \/ Tick
    \/ \E u \in Users \cup {NoUser}, op \in Operations : IssueKey(u, op)
    \/ \E r \in Requests, k \in Keys, u \in Users, a \in Amounts : PayLookup(r, k, u, a)
    \/ \E r \in Requests : tryClaimKey(r)
    \/ \E r \in Requests : PayConnect(r)
    \/ \E r \in Requests : PayBegin(r)
    \/ \E r \in Requests : PayInsert(r)
    \/ \E r \in Requests : PayCommit(r)
    \/ \E r \in Requests : PayComplete(r)
    \/ \E r \in Requests : PayRollback(r)
    \/ \E r \in Requests : PayFail(r)
    \/ \E r \in Requests : PayPoll(r)
    \/ \E r \in Requests : Crash(r)
    \/ cleanup

Spec == Init /\ [][Next]_vars

\* ====================================================================
\* Properties
\* ====================================================================
Winners(k) == {r \in Requests : claimed[r] /\ req[r].key = k}

\* r's tryClaimKey call returns in this step
ClaimReturns(r) == pc[r] = "claim" /\ pc'[r] # "claim"

Reserved(k) == k \in Rows /\ idempotency_keys[k].status = "reserved"
Unexpired(k) == k \in Rows /\ idempotency_keys[k].reserved_until > now
OwnerAdmits(k, u) ==
    k \in Rows /\ (idempotency_keys[k].user_id = NoUser \/ idempotency_keys[k].user_id = u)

PaymentsFor(k) == {i \in 1..Len(payments) : payment_key[i] = k}
PendingFor(k) == {r \in Requests : req[r].key = k /\ txn[r].state = "inserted"}

\* C1 as stated: every tryClaimKey call made while the key is reserved and
\* unexpired returns true (after which the key is no longer reserved, so the
\* concurrent calls return false), and a key has at most one winner ever.
C1_AsStated ==
    /\ [](\A k \in Keys : Cardinality(Winners(k)) <= 1)
    /\ [][\A r \in Requests : ClaimReturns(r) =>
            (claimed'[r] <=> (Reserved(req[r].key) /\ Unexpired(req[r].key)))]_vars

\* C1 (amended): among the tryClaimKey calls on a key made while it is
\* reserved and unexpired by callers its owner check admits, exactly one
\* returns true: the first such call wins and moves the key to processing,
\* every other call returns false; a key has at most one winner in its
\* whole lifetime.
C1_ExactlyOneWinner ==
    /\ [](\A k \in Keys : Cardinality(Winners(k)) <= 1)
    /\ [][\A r \in Requests : ClaimReturns(r) =>
            /\ claimed'[r] <=> /\ Reserved(req[r].key)
                               /\ Unexpired(req[r].key)
                               /\ OwnerAdmits(req[r].key, req[r].user_id)
            /\ claimed'[r] => idempotency_keys'[req[r].key].status = "processing"]_vars

\* two admitted callers raced for the same reserved, unexpired key: one won,
\* the other's call has returned false
C1_Witness ==
    \E r1, r2 \in Requests :
        /\ r1 # r2 /\ req[r1].key = req[r2].key
        /\ live[r1] /\ live[r2]
        /\ OwnerAdmits(req[r1].key, req[r1].user_id)
        /\ OwnerAdmits(req[r2].key, req[r2].user_id)
        /\ claimed[r1] /\ ~claimed[r2] /\ pc[r2] \in {"poll", "done"}

\* C2: whatever the interleaving of POST /pay requests on a key and of
\* expiry runs, at most one payment row is ever inserted for the key
\* (committed rows and rows of open transactions counted together).
C2_AtMostOnePayment ==
    \A k \in Keys : Cardinality(PaymentsFor(k)) + Cardinality(PendingFor(k)) <= 1

\* a key has its payment, and a second request with the same key (a retry
\* or a concurrent sibling) has been answered without a second one
C2_Witness ==
    \E r1, r2 \in Requests :
        /\ r1 # r2 /\ req[r1].key = req[r2].key
        /\ claimed[r1] /\ PaymentsFor(req[r1].key) # {}
        /\ pc[r2] = "done" /\ res[r2].status \in {200, 202, 500}

\* two requests presented the same key while it was still reserved and
\* unexpired (both looked it up before any claim), and both were answered
Raced(r1, r2) ==
    /\ r1 # r2 /\ req[r1].key = req[r2].key
    /\ live[r1] /\ live[r2]
    /\ pc[r1] = "done" /\ pc[r2] = "done"

\* C3 as stated: two requests that raced for a reserved, unexpired key leave
\* exactly one payment and were answered with the identical body.
C3_AsStated ==
    \A r1, r2 \in Requests : Raced(r1, r2) =>
        /\ Cardinality(PaymentsFor(req[r1].key)) = 1
        /\ res[r1].body = res[r2].body

\* C3 (amended): two requests that raced for a reserved, unexpired key leave
\* at most one payment; each of them that was answered 200 was answered with
\* exactly the response stored with the completed key, and then exactly one
\* payment exists: the loser's 200 body is the one the winner stored.  (When
\* the operation fails, the claim is refused or the wait times out, the
\* answers are 5xx or 202 and need not be equal.)
C3_SameStoredResponse ==
    \A r1, r2 \in Requests : Raced(r1, r2) =>
        /\ Cardinality(PaymentsFor(req[r1].key)) <= 1
        /\ \A r \in {r1, r2} : res[r].status = 200 =>
              /\ req[r].key \in Rows
              /\ idempotency_keys[req[r].key].status = "completed"
              /\ res[r].body = idempotency_keys[req[r].key].response
              /\ Cardinality(PaymentsFor(req[r].key)) = 1
        /\ (res[r1].status = 200 /\ res[r2].status = 200) => res[r1].body = res[r2].body

\* the race was won and completed, and the loser was answered from the store
C3_Witness ==
    \E r1, r2 \in Requests :
        /\ Raced(r1, r2)
        /\ claimed[r1] /\ ~claimed[r2]
        /\ res[r1].status = 200 /\ res[r2].status = 200
        /\ res[r1].body = res[r2].body /\ res[r1].body # Null

\* r's request arrives in this step and finds its key completed
ArrivesAtCompleted(r) ==
    /\ pc[r] = "idle" /\ pc'[r] # "idle"
    /\ req'[r].key \in Rows
    /\ idempotency_keys[req'[r].key].status = "completed"

\* C4: a POST /pay request that starts after the completed write of its key
\* is answered 200 with exactly the stored response in its first step and
\* never acts again: it makes no claim, opens no transaction, inserts no
\* payment and leaves the key record and the payments table unchanged.
C4_ReplayWithoutEffect ==
    [][\A r \in Requests :
          /\ ArrivesAtCompleted(r) =>
                /\ pc'[r] = "done"
                /\ res'[r] = [status |-> 200,
                              body |-> idempotency_keys[req'[r].key].response]
                /\ ~claimed'[r] /\ txn'[r] = NoTxn
                /\ idempotency_keys' = idempotency_keys
                /\ payments' = payments
                /\ payments_id_seq' = payments_id_seq
          /\ pc[r] = "done" =>
                /\ pc'[r] = "done" /\ res'[r] = res[r]
                /\ claimed'[r] = claimed[r] /\ txn'[r] = txn[r]]_vars

\* a request looked up a completed key and was answered from the store
C4_Witness ==
    \E r \in Requests :
        /\ pc[r] = "done" /\ row[r].status = "completed" /\ ~claimed[r]
        /\ res[r] = [status |-> 200, body |-> idempotency_keys[req[r].key].response]
        /\ Len(payments) = 1

\* C5: a reserved or processing key has a null response, and the response of
\* a completed or failed key is never changed (nor the row removed) by any
\* later step.
C5_ResponseNullThenFrozen ==
    /\ [](\A k \in Rows : ~Terminal(idempotency_keys[k].status) =>
              idempotency_keys[k].response = Null)
    /\ [][\A k \in Rows : Terminal(idempotency_keys[k].status) =>
              /\ k \in DOMAIN idempotency_keys'
              /\ idempotency_keys'[k].response = idempotency_keys[k].response]_vars

\* a failed key keeps its error payload while a later request reads it
C5_Witness ==
    \E r \in Requests :
        /\ pc[r] = "done" /\ row[r].status = "failed" /\ row[r].response # Null
        /\ idempotency_keys[req[r].key].response = row[r].response
        /\ res[r].status = 500 /\ res[r].body.detail = row[r].response

\* C6: a new key starts reserved, and a key's status changes only from
\* reserved to processing and from processing to completed or failed; the
\* status of a completed or failed key never changes.
C6_ForwardOnly ==
    [][\A k \in Keys :
          /\ (k \notin Rows /\ k \in DOMAIN idempotency_keys') =>
                idempotency_keys'[k].status = "reserved"
          /\ (k \in Rows /\ k \in DOMAIN idempotency_keys'
                /\ idempotency_keys'[k].status # idempotency_keys[k].status) =>
                <<idempotency_keys[k].status, idempotency_keys'[k].status>> \in
                    {<<"reserved", "processing">>,
                     <<"processing", "completed">>,
                     <<"processing", "failed">>}]_vars

\* a claim was attempted on a key that had failed, and the key is still failed
C6_Witness ==
    \E r \in Requests :
        /\ row[r].status = "failed" /\ pc[r] = "poll" /\ ~claimed[r]
        /\ idempotency_keys[req[r].key].status = "failed"

\* err.message values thrown by the protected operation (90-98)
OperationErrors == {"connect failed", "begin failed", "insert failed", "commit failed"}

\* r went through the short-poll loop: its key existed, was not completed
\* when looked up, and its claim returned false
Waited(r) == ~claimed[r] /\ row[r].status \in {"reserved", "processing", "failed"}

\* C7 as stated: once the protected operation of a claimed key has thrown
\* and the handler has answered, the key is failed with the error payload;
\* and every request that finds the key failed is answered 5xx without a
\* claim and without an insert.
C7_AsStated ==
    /\ \A r \in Requests :
          (claimed[r] /\ pc[r] = "done" /\ err[r] \in OperationErrors) =>
              /\ idempotency_keys[req[r].key].status = "failed"
              /\ idempotency_keys[req[r].key].response = [error |-> err[r]]
    /\ \A r \in Requests :
          (pc[r] = "done" /\ row[r].status = "failed") =>
              /\ res[r].status >= 500
              /\ ~claimed[r] /\ payRes[r] = NoPayRes /\ txn[r] = NoTxn

\* C8 as stated, in the form a finite run refutes: when the request that
\* won the claim has been answered, its key is completed or failed.
C8_AsStated ==
    \A r \in Requests :
        (claimed[r] /\ pc[r] = "done") =>
            Terminal(idempotency_keys[req[r].key].status)

\* C9 as stated: a request whose claim failed makes at most
\* maxWaitMs / intervalMs reads and ends in one of three ways: 200 with the
\* stored response on reading completed, the failure answer on reading
\* failed, or 202 after the full count of reads.
C9_AsStated ==
    \A r \in Requests :
        /\ pc[r] = "poll" => waited[r] < maxWaitMs
        /\ (pc[r] = "done" /\ Waited(r)) =>
              \/ /\ res[r].status = 200
                 /\ req[r].key \in Rows
                 /\ idempotency_keys[req[r].key].status = "completed"
                 /\ res[r].body = idempotency_keys[req[r].key].response
              \/ /\ res[r].status = 500
                 /\ req[r].key \in Rows
                 /\ idempotency_keys[req[r].key].status = "failed"
                 /\ res[r].body = [error |-> "Previous attempt failed",
                                   detail |-> idempotency_keys[req[r].key].response]
              \/ /\ res[r].status = 202
                 /\ waited[r] = maxWaitMs

\* C10: a step that removes key records removes exactly the records that
\* are reserved with reserved_until in the past, and changes nothing else
\* (it is a run of the expiry job, not a step of a request handler); a
\* processing, completed or failed record is never removed.
C10_SweepOnlyExpiredReserved ==
    [][/\ \A k \in Rows :
             k \notin DOMAIN idempotency_keys' =>
                /\ idempotency_keys[k].status = "reserved"
                /\ idempotency_keys[k].reserved_until < now
                /\ \A j \in DOMAIN idempotency_keys' :
                      j \in Rows /\ idempotency_keys'[j] = idempotency_keys[j]
                /\ UNCHANGED <<payments, payments_id_seq, payment_key, now,
                               issueVars, pc, localVars, res>>
       /\ \A k \in Rows :
             idempotency_keys[k].status \in {"processing", "completed", "failed"} =>
                k \in DOMAIN idempotency_keys']_vars

\* the expiry job has removed a key that a request had looked up while it
\* was still claimable, while that request was in flight or after it
C10_Witness ==
    \E r \in Requests :
        /\ live[r] /\ req[r].key \in issued /\ req[r].key \notin Rows
        /\ pc[r] \in {"poll", "done"}

\* the reservation window of k has passed
Expired(k) ==
    /\ k \in Rows
    /\ idempotency_keys[k].reserved_until # NoTime
    /\ idempotency_keys[k].reserved_until < now

\* C11: a tryClaimKey call on a key that is reserved with reserved_until in
\* the past returns false and leaves the table as it is; a run of the expiry
\* job removes every such key, and GET /idempotency/{key} answers 404 for it
\* from then on (for any key without a record).
C11_ExpiredUnclaimableThenSwept ==
    /\ [][\A r \in Requests :
            (ClaimReturns(r) /\ Reserved(req[r].key) /\ Expired(req[r].key)) =>
                /\ ~claimed'[r]
                /\ idempotency_keys' = idempotency_keys]_vars
    /\ [][cleanup =>
            \A k \in Rows : (Reserved(k) /\ Expired(k)) =>
                /\ k \notin DOMAIN idempotency_keys'
                /\ GetKey(k)' = [status |-> 404, body |-> [error |-> "not found"]]]_vars
    /\ [](\A k \in Keys : k \notin Rows => GetKey(k).status = 404)

\* a request found its key reserved but no longer claimable, its claim
\* returned false, and the expiry job has since removed the key: GET says 404
C11_Witness ==
    \E r \in Requests :
        /\ row[r].status = "reserved" /\ ~live[r] /\ ~claimed[r]
        /\ pc[r] \in {"poll", "done"}
        /\ req[r].key \in issued /\ req[r].key \notin Rows
        /\ GetKey(req[r].key).status = 404

\* r's request arrives in this step with a key that has no record
ArrivesAtUnknown(r) ==
    /\ pc[r] = "idle" /\ pc'[r] # "idle"
    /\ req'[r].key \notin Rows

\* C12: a POST /pay request whose key has no record is answered 400 in its
\* first step and changes nothing: no key record appears, no payment is
\* inserted, no transaction is opened.
C12_UnknownKeyRejected ==
    [][\A r \in Requests : ArrivesAtUnknown(r) =>
          /\ pc'[r] = "done"
          /\ res'[r].status = 400
          /\ ~claimed'[r] /\ txn'[r] = NoTxn
          /\ idempotency_keys' = idempotency_keys
          /\ payments' = payments
          /\ payments_id_seq' = payments_id_seq]_vars

\* a request with an unknown key was answered 400 and no record was created
C12_Witness ==
    \E r \in Requests :
        /\ pc[r] = "done" /\ res[r].status = 400 /\ row[r] = NoRow
        /\ req[r].key \notin Rows /\ payments = <<>>

\* C13: tryClaimKey(key, user) returns true exactly when the key has a
\* record that is reserved, whose owner is absent or the caller, and whose
\* reserved_until is absent or in the future; a call that returns true turns
\* that one record to processing and refreshes updated_at in the same step
\* and changes no other column or row; a call that returns false changes
\* nothing.
C13_ClaimIffAndAtomic ==
    [][\A r \in Requests : ClaimReturns(r) =>
          LET k == req[r].key IN
          /\ claimed'[r] <=>
                /\ k \in Rows
                /\ idempotency_keys[k].status = "reserved"
                /\ idempotency_keys[k].user_id \in {NoUser, req[r].user_id}
                /\ (idempotency_keys[k].reserved_until = NoTime
                      \/ idempotency_keys[k].reserved_until > now)
          /\ claimed'[r] =>
                idempotency_keys' =
                    [idempotency_keys EXCEPT ![k].status = "processing",
                                             ![k].updated_at = now]
          /\ ~claimed'[r] => idempotency_keys' = idempotency_keys
          /\ UNCHANGED <<payments, payments_id_seq>>]_vars

\* one call was refused because the key belongs to another user and left the
\* key reserved; a call by the owner then won it
C13_Witness ==
    \E r1, r2 \in Requests :
        /\ r1 # r2 /\ req[r1].key = req[r2].key
        /\ live[r1] /\ live[r2]
        /\ ~claimed[r1] /\ pc[r1] = "poll"
        /\ idempotency_keys[req[r1].key].user_id \notin {NoUser, req[r1].user_id}
        /\ claimed[r2] /\ idempotency_keys[req[r2].key].user_id = req[r2].user_id
        /\ idempotency_keys[req[r2].key].status = "processing"

\* C14: once a key has been issued, claimed and completed with payload P and
\* the winner has been answered, GET /idempotency/{key} answers 200 with
\* status completed and a response equal to P as the winner received it
\* (P in its JSON form: its created_at Date as the ISO string).
C14_RoundTrip ==
    \A r \in Requests :
        (claimed[r] /\ pc[r] = "done" /\ res[r].status = 200) =>
            /\ GetKey(req[r].key).status = 200
            /\ GetKey(req[r].key).body.status = "completed"
            /\ GetKey(req[r].key).body.response = res[r].body
            /\ res[r].body = ToJSON(responsePayload(r))
            /\ res[r].body.paymentId = payRes[r].id

\* a winner was answered 200 and the record read back carries its payload
C14_Witness ==
    \E r \in Requests :
        /\ claimed[r] /\ pc[r] = "done" /\ res[r].status = 200
        /\ res[r].body.success /\ res[r].body.created_at[1] = "ISO"
        /\ GetKey(req[r].key).body.response = res[r].body

\* POST /idempotency-keys answers in this step
IssueAnswers == issued' # issued \/ issue_res' # issue_res

\* C15: when POST /idempotency-keys answers with a key, that key's record,
\* reserved and with a null response, has been inserted by the same step
\* and was not there before; when its INSERT fails it answers 500 without a
\* key and the table is unchanged.
C15_KeyOnlyAfterInsert ==
    [][IssueAnswers =>
          /\ issue_res'.status \in {200, 500}
          /\ issue_res'.status = 200 =>
                LET key == issue_res'.body.idempotencyKey IN
                /\ key \notin Rows
                /\ key \in DOMAIN idempotency_keys'
                /\ idempotency_keys'[key].status = "reserved"
                /\ idempotency_keys'[key].response = Null
                /\ idempotency_keys'[key].reserved_until = issue_res'.body.reserved_until
                /\ \A j \in Rows : idempotency_keys'[j] = idempotency_keys[j]
          /\ issue_res'.status = 500 =>
                /\ "idempotencyKey" \notin DOMAIN issue_res'.body
                /\ idempotency_keys' = idempotency_keys]_vars

\* the INSERT failed: the caller got 500 and no key, and the store is empty
C15_Witness ==
    /\ issue_res.status = 500
    /\ "idempotencyKey" \notin DOMAIN issue_res.body
    /\ idempotency_keys = <<>> /\ issued = {}

\* terminal writes r has issued (whether or not they took effect): the
\* completed write of 106-109 and the failed write of 116-119
CompletedWriteIssued(r) ==
    claimed[r] /\ (err[r] = "update failed" \/ (pc[r] = "done" /\ res[r].status = 200))
FailedWriteIssued(r) == claimed[r] /\ pc[r] = "done" /\ res[r].status = 500
TerminalWritesIssued(r) ==
    (IF CompletedWriteIssued(r) THEN 1 ELSE 0) + (IF FailedWriteIssued(r) THEN 1 ELSE 0)

C17_CompletedHasPayment ==
    \A k \in Rows :
        idempotency_keys[k].status = "completed" =>
            \E i \in PaymentsFor(k) :
                payments[i].id = idempotency_keys[k].response.paymentId

\* a key is completed and the payment its response names is in the table
C17_Witness ==
    \E k \in Rows :
        /\ idempotency_keys[k].status = "completed"
        /\ PaymentsFor(k) # {}
        /\ idempotency_keys[k].response.paymentId = payments[1].id

\* C18: in every state no record satisfies both the DELETE condition of the
\* expiry job and the UPDATE condition of tryClaimKey, for any caller; a
\* step that removes records removes none that a caller could have claimed
\* and leaves the outcome of a claim on every key, for every caller, as it
\* was.
C18_SweepDisjointFromClaim ==
    /\ [](\A k \in Rows, u \in Users : ~(CleanupWhere(k) /\ ClaimWhere(k, u)))
    /\ [][(DOMAIN idempotency_keys' # Rows /\ DOMAIN idempotency_keys' \subseteq Rows) =>
            /\ \A k \in Rows \ DOMAIN idempotency_keys', u \in Users :
                  ~(/\ idempotency_keys[k].status = "reserved"
                    /\ idempotency_keys[k].user_id \in {NoUser, u}
                    /\ (idempotency_keys[k].reserved_until = NoTime
                          \/ idempotency_keys[k].reserved_until > now))
            /\ \A k \in Keys, u \in Users : ClaimWhere(k, u)' <=> ClaimWhere(k, u)]_vars

\* a reserved key is past its window (the expiry job may remove it) and a
\* claim on it has just been refused
C18_Witness ==
    \E r \in Requests :
        /\ pc[r] = "poll" /\ waited[r] = 0 /\ ~claimed[r]
        /\ Reserved(req[r].key) /\ CleanupWhere(req[r].key)
        /\ OwnerAdmits(req[r].key, req[r].user_id)

\* C19 as stated: a request that went through the wait was answered in one
\* of three ways: completed with the stored response (200), failed with the
\* stored error (500 'Previous attempt failed'), or still processing (202).
C19_AsStated ==
    \A r \in Requests :
        (pc[r] = "done" /\ Waited(r)) =>
            \/ res[r].status = 200
            \/ res[r].status = 202
            \/ res[r].status = 500 /\ res[r].body.error = "Previous attempt failed"

\* C20 as stated: a failed key has no committed payment made for it.
C20_AsStated ==
    \A k \in Rows :
        idempotency_keys[k].status = "failed" => PaymentsFor(k) = {}

====
